---- MODULE Spec2Model ----
(***************************************************************************)
(* Model of the Eight Sleep thermostat accessory                           *)
(* (src/src/platformAccessory.ts): the per-side Thermostat_data record,    *)
(* the asynchronous get/set characteristic handlers with their suspension  *)
(* points at the remote client calls, and the remote device they talk to.  *)
(*                                                                         *)
(* Temperatures are integers in units of 10^-5 degrees Celsius, so that    *)
(* minStep (0.55556), the tolerance (0.55) and maxTempC (45.1) are exact.  *)
(***************************************************************************)
EXTENDS Integers, Sequences, FiniteSets, TLC

VARIABLES acc, isNotResponding, remote, calls, floating, settled, platform

vars == <<acc, isNotResponding, remote, calls, floating, settled, platform>>

(***************************************************************************)
(* Program constants                                                       *)
(***************************************************************************)
\* HAP Characteristic.{Current,Target}HeatingCoolingState values
OFF == 0
HEAT == 1
COOL == 2
AUTO == 3

MinStep == 55556
MinTempC == 1000000
MaxTempC == 4510000
Tolerance == 55000
MaxLevel == 100

\* Celsius span covered by one device level: (45 - 10) / 200 degrees
DegPerLevel == 17500

(***************************************************************************)
(* Bounds of the model                                                     *)
(***************************************************************************)
\* handler invocations that may be suspended at a client call at the same
\* time
MaxCalls == 1
\* the same, where overlapping invocations are what is examined
MaxOverlap == 2

Sides == {"left", "right"}
\* the sides whose accessory handles requests in this model
LiveSides == {"left"}
\* levels the device may report as measured
MeasuredLevels == {-100, 100}
\* values a client may write to TargetTemperature: 10 C (level -100) and
\* 27.5 C (27.22236 C on the minStep grid, level -2)
TempInputs == {1000000, 2750000}
\* values a client may write to TargetHeatingCoolingState (validValues)
ModeInputs == {OFF, AUTO}
UnitInputs == {0, 1}

Abs(x) == IF x < 0 THEN -x ELSE x
Min(a, b) == IF a < b THEN a ELSE b
Max(a, b) == IF a < b THEN b ELSE a

(***************************************************************************)
(* Unit Mapper (twoWayTempMapper): not among the sources; modelled from    *)
(* the specification, section 4.1.                                         *)
(***************************************************************************)
\* quantizes down to a step of minStep inside [minTempC, maxTempC]
formatCelsius(raw) ==
    LET c == Min(Max(raw, MinTempC), MaxTempC)
    IN  MinTempC + ((c - MinTempC) \div MinStep) * MinStep

\* level -100..100 onto 10..45 degrees, monotonic
levelToCelsius(level) == MinTempC + (level + MaxLevel) * DegPerLevel

\* variant: the step index is taken for the level, without scaling
celsiusToLevelUnscaled(tempC) == ((tempC - MinTempC) \div MinStep) - MaxLevel

\* the intended inverse, rounding to the nearest level; out of range for
\* input outside the domain
celsiusToLevel(tempC) ==
    ((2 * (tempC - MinTempC) + DegPerLevel) \div (2 * DegPerLevel)) - MaxLevel

(***************************************************************************)
(* State                                                                   *)
(*   acc[s]              Thermostat_data of the accessory of side s        *)
(*   isNotResponding[s]  the accessory's constructor flag                  *)
(*   remote[s]           what the device holds for side s                  *)
(*   calls[i]            a handler invocation suspended at a client call   *)
(*                       (or rejected, with fetches still to resume): its  *)
(*                       promise and the requests it has issued            *)
(*   floating            the power requests in flight, which no handler    *)
(*                       awaits                                            *)
(*   settled             the invocation that returned or threw in the step *)
(*                       that led to this state (NoCall if none did)       *)
(*   platform            the platform plugin: its accessories list, the    *)
(*                       position of discoverDevices, the accessory        *)
(*                       handlers it created and what it registered        *)
(* An invocation records what it was called with (arg), the level the      *)
(* mapper gave for it (level), how its promise settled (result, value),    *)
(* the client requests it made (reqs), the mismatches it logged and        *)
(* whether it ran triggerCurrentHeatingCoolingStateUpdate (recomputed).    *)
(***************************************************************************)
CallIds == 1..MaxOverlap

\* a platform whose discovery is not under examination: configured, nothing
\* restored, discoverDevices not started
PlatformAtRest ==
    [configured |-> TRUE, phase |-> "restoring", accessories |-> <<>>,
     clientDevice |-> "unknown", session |-> "unknown",
     handlers |-> <<>>, registered |-> <<>>,
     logged |-> <<>>, unhandledRejection |-> FALSE]
\* positions of the requests of one invocation (fetchCurrentState makes 3)
ReqIds == 1..3

Thermostat_data ==
    [CurrentHeatingCoolingState |-> 0,
     TargetHeatingCoolingState |-> 0,
     CurrentTemperature |-> 0,
     TargetTemperature |-> 0,
     TemperatureDisplayUnits |-> 1]

NoCall ==
    [op |-> "none", side |-> "left", arg |-> 0, level |-> 0, result |-> "none",
     value |-> 0, reqs |-> <<>>, mismatches |-> 0, recomputed |-> FALSE]

\* a request handed to the client adapter: st is "sent" until the device
\* answers ("ok", with reply), "done" once the awaiting code has resumed,
\* "failed" when the call rejected
\* variant: one client, bound to the left side, serves both accessories
ReqOneUser(kind, s, arg) ==
    [kind |-> kind, side |-> "left", arg |-> arg, st |-> "sent", reply |-> 0]

Req(kind, s, arg) == [kind |-> kind, side |-> s, arg |-> arg, st |-> "sent", reply |-> 0]

Call(op, s, arg, result, value, reqs, recomputed) ==
    [op |-> op, side |-> s, arg |-> arg, level |-> 0, result |-> result,
     value |-> value, reqs |-> reqs, mismatches |-> 0, recomputed |-> recomputed]

PowerKinds == {"turnOnAccessory", "turnOffAccessory"}

\* the requests of c that a continuation of c still waits for
Outstanding(c) == {k \in DOMAIN c.reqs : c.reqs[k].st \in {"sent", "ok"}}
AllDone(c) == \A k \in DOMAIN c.reqs : c.reqs[k].st = "done"

\* a slot that takes no invocation (the bound on suspended invocations is
\* lower than the number of slots)
Unused == [NoCall EXCEPT !.result = "unused"]

HasFree == \E i \in CallIds : calls[i] = NoCall
FreeSlot == CHOOSE i \in CallIds :
               /\ calls[i] = NoCall
               /\ \A j \in CallIds : calls[j] = NoCall => i <= j

\* the invocation suspends at its first await
Suspend(c) ==
    /\ HasFree
    /\ calls' = [calls EXCEPT ![FreeSlot] = c]
    /\ settled' = NoCall
    /\ UNCHANGED platform

\* the invocation runs to its end without suspending
Return(c) ==
    /\ calls' = calls
    /\ settled' = c
    /\ UNCHANGED platform

\* invocation i goes on as c: it leaves its slot once nothing of it is
\* outstanding, and shows as settled in the step in which it settles
Continue(i, c) ==
    /\ calls' = [calls EXCEPT ![i] = IF Outstanding(c) = {} THEN NoCall ELSE c]
    /\ settled' = IF calls[i].result = "pending" /\ c.result # "pending"
                  THEN c ELSE NoCall
    /\ UNCHANGED platform

(***************************************************************************)
(* The remote device (external collaborator, specification section 6)      *)
(***************************************************************************)
\* the level the device commits for a requested one: the requested level,
\* or the neighbouring one
Committed(level) == {level, IF level > -MaxLevel THEN level - 1 ELSE level + 1}

\* target levels the device may hold at start
InitialTargetLevels == {-100, 100}

(***************************************************************************)
(* Pure parts of the accessory                                             *)
(***************************************************************************)
\* variant: the gate never throws
gateOpen(s) == TRUE

ensureDeviceResponsiveness(s) == ~isNotResponding[s]

\* variant: a difference of exactly the tolerance is not equal
tempsAreEqualStrict(current, target) == Abs(target - current) < Tolerance

tempsAreEqual(current, target) == Abs(target - current) <= Tolerance

deriveCurrentMode(a) ==
    IF tempsAreEqual(a.CurrentTemperature, a.TargetTemperature)
         \/ a.TargetHeatingCoolingState = 0
    THEN OFF
    ELSE IF a.CurrentTemperature < a.TargetTemperature THEN HEAT
    ELSE IF a.CurrentTemperature > a.TargetTemperature THEN COOL
    ELSE a.CurrentHeatingCoolingState

\* variant: the derived mode is not written back
triggerSkipped(a) == a

triggerCurrentHeatingCoolingStateUpdate(a) ==
    [a EXCEPT !.CurrentHeatingCoolingState = deriveCurrentMode(a)]

\* variant: only the falsy level is rejected, the range is not checked
levelRejectedFalsy(targetLevel) == targetLevel = 0

\* the guard of updateTargetTemperature: !targetLevel || > 100 || < -100
levelRejected(targetLevel) ==
    targetLevel = 0 \/ targetLevel > 100 \/ targetLevel < -100

\* variant: the level is stored as it comes, unconverted
fetchTargetTempRaw(a, targetLevel) ==
    [a EXCEPT !.TargetTemperature = targetLevel]

\* the stores of the three fetches, given the client's answer
fetchCurrentTemp(a, currentMeasuredLevel) ==
    [a EXCEPT !.CurrentTemperature = levelToCelsius(currentMeasuredLevel)]
fetchTargetState(a, accessoryIsOn) ==
    [a EXCEPT !.TargetHeatingCoolingState = IF accessoryIsOn THEN 3 ELSE 0]
fetchTargetTemp(a, targetLevel) ==
    [a EXCEPT !.TargetTemperature = levelToCelsius(targetLevel)]

(***************************************************************************)
(* Handlers: the part that runs when the characteristic is read or         *)
(* written, up to the first suspension                                     *)
(***************************************************************************)
\* the gate throws
Unresponsive(op, s, arg) ==
    /\ Return(Call(op, s, arg, "commfail", 0, <<>>, FALSE))
    /\ UNCHANGED <<acc, isNotResponding, remote, floating>>

\* the handler issues its requests and awaits them
Await(op, s, arg, reqs) ==
    /\ Suspend(Call(op, s, arg, "pending", 0, reqs, FALSE))
    /\ UNCHANGED <<acc, isNotResponding, remote, floating>>

handleCurrentHeatingCoolingStateGet(s) ==
    IF ~ensureDeviceResponsiveness(s)
    THEN Unresponsive("handleCurrentHeatingCoolingStateGet", s, 0)
    ELSE Await("handleCurrentHeatingCoolingStateGet", s, 0,
               <<Req("currentLevelForSide", s, 0),
                 Req("accessoryIsOn", s, 0),
                 Req("userTargetLevel", s, 0)>>)

handleCurrentTemperatureGet(s) ==
    IF ~ensureDeviceResponsiveness(s)
    THEN Unresponsive("handleCurrentTemperatureGet", s, 0)
    ELSE Await("handleCurrentTemperatureGet", s, 0, <<Req("currentLevelForSide", s, 0)>>)

handleTargetTemperatureGet(s) ==
    IF ~ensureDeviceResponsiveness(s)
    THEN Unresponsive("handleTargetTemperatureGet", s, 0)
    ELSE Await("handleTargetTemperatureGet", s, 0, <<Req("userTargetLevel", s, 0)>>)

handleTargetHeatingCoolingStateGet(s) ==
    IF ~ensureDeviceResponsiveness(s)
    THEN Unresponsive("handleTargetHeatingCoolingStateGet", s, 0)
    ELSE Await("handleTargetHeatingCoolingStateGet", s, 0, <<Req("accessoryIsOn", s, 0)>>)

\* updateTargetTemperature up to its await, for the level the mapper gave:
\* on a rejected level it returns targetC at once, and the handler recomputes
updateTargetTemperature(s, value, targetLevel) ==
    LET targetC == formatCelsius(value)
    IN  IF levelRejected(targetLevel)
        THEN /\ acc' = [acc EXCEPT ![s] = triggerCurrentHeatingCoolingStateUpdate(acc[s])]
             /\ Return([Call("handleTargetTemperatureSet", s, value, "ok", targetC, <<>>, TRUE)
                           EXCEPT !.level = targetLevel])
             /\ UNCHANGED <<isNotResponding, remote, floating>>
        ELSE /\ Suspend([Call("handleTargetTemperatureSet", s, value, "pending", 0,
                               <<Req("updateUserTargetLevel", s, targetLevel)>>, FALSE)
                           EXCEPT !.level = targetLevel])
             /\ UNCHANGED <<acc, isNotResponding, remote, floating>>

handleTargetTemperatureSet(s, value, targetLevel) ==
    IF ~ensureDeviceResponsiveness(s)
    THEN Unresponsive("handleTargetTemperatureSet", s, value)
    ELSE updateTargetTemperature(s, value, targetLevel)

\* variant: the device is never switched off
updateDeviceStateOnOnly(s, newValue) ==
    IF newValue = 3 THEN <<Req("turnOnAccessory", s, 0)>> ELSE <<>>

\* the client request updateDeviceState makes; neither updateDeviceState
\* nor its caller awaits it
updateDeviceState(s, newValue) ==
    IF newValue = 3 THEN <<Req("turnOnAccessory", s, 0)>>
    ELSE IF newValue = 0 THEN <<Req("turnOffAccessory", s, 0)>>
    ELSE <<>>

handleTargetHeatingCoolingStateSet(s, value) ==
    IF ~ensureDeviceResponsiveness(s)
    THEN Unresponsive("handleTargetHeatingCoolingStateSet", s, value)
    ELSE LET reqs == IF acc[s].TargetHeatingCoolingState # value
                     THEN updateDeviceState(s, value) ELSE <<>>
             a == [acc[s] EXCEPT !.TargetHeatingCoolingState = value]
         IN  /\ acc' = [acc EXCEPT ![s] = triggerCurrentHeatingCoolingStateUpdate(a)]
             /\ floating' = floating \cup
                   {[kind |-> reqs[k].kind, side |-> reqs[k].side] :
                       k \in DOMAIN reqs}
             /\ Return(Call("handleTargetHeatingCoolingStateSet", s, value,
                            "ok", 0, reqs, TRUE))
             /\ UNCHANGED <<isNotResponding, remote>>

handleTemperatureDisplayUnitsGet(s) ==
    IF ~ensureDeviceResponsiveness(s)
    THEN Unresponsive("handleTemperatureDisplayUnitsGet", s, 0)
    ELSE /\ Return(Call("handleTemperatureDisplayUnitsGet", s, 0, "ok",
                        acc[s].TemperatureDisplayUnits, <<>>, FALSE))
         /\ UNCHANGED <<acc, isNotResponding, remote, floating>>

\* variant: the written unit is not stored
handleTemperatureDisplayUnitsSetDropped(s, value) ==
    IF ~ensureDeviceResponsiveness(s)
    THEN Unresponsive("handleTemperatureDisplayUnitsSet", s, value)
    ELSE /\ Return(Call("handleTemperatureDisplayUnitsSet", s, value, "ok", 0, <<>>, FALSE))
         /\ UNCHANGED <<acc, isNotResponding, remote, floating>>

handleTemperatureDisplayUnitsSet(s, value) ==
    IF ~ensureDeviceResponsiveness(s)
    THEN Unresponsive("handleTemperatureDisplayUnitsSet", s, value)
    ELSE /\ acc' = [acc EXCEPT ![s].TemperatureDisplayUnits = value]
         /\ Return(Call("handleTemperatureDisplayUnitsSet", s, value, "ok", 0, <<>>, FALSE))
         /\ UNCHANGED <<isNotResponding, remote, floating>>

(***************************************************************************)
(* The device serves a write, or a request fails                           *)
(***************************************************************************)
\* the device commits a level and echoes it; the echo is still on its way
\* to the handler
RemoteCommitsLevel(i, k) ==
    /\ k \in DOMAIN calls[i].reqs
    /\ LET r == calls[i].reqs[k]
       IN  /\ r.st = "sent" /\ r.kind = "updateUserTargetLevel"
           /\ \E e \in Committed(r.arg) :
                 /\ remote' = [remote EXCEPT ![r.side].targetLevel = e]
                 /\ calls' = [calls EXCEPT ![i].reqs[k].reply = e,
                                           ![i].reqs[k].st = "ok"]
    /\ settled' = NoCall
    /\ UNCHANGED <<acc, isNotResponding, floating, platform>>

\* the device switches a side on or off; nothing awaits the answer
RemoteSwitches(f) ==
    /\ f \in floating
    /\ remote' = [remote EXCEPT ![f.side].isOn = (f.kind = "turnOnAccessory")]
    /\ floating' = floating \ {f}
    /\ settled' = NoCall
    /\ UNCHANGED <<acc, isNotResponding, calls, platform>>

\* a power request rejects: nothing awaits it, the rejection is unhandled
PowerCallFails(f) ==
    /\ f \in floating
    /\ floating' = floating \ {f}
    /\ settled' = Call("unhandledRejection", f.side, 0, "error", 0,
                       <<[Req(f.kind, f.side, 0) EXCEPT !.st = "failed"]>>, FALSE)
    /\ UNCHANGED <<acc, isNotResponding, remote, calls, platform>>

\* an awaited client call rejects: the awaiting handler rejects with it (the
\* first rejection settles Promise.all)
ClientCallFails(i, k) ==
    /\ k \in DOMAIN calls[i].reqs
    /\ calls[i].reqs[k].st = "sent"
    /\ Continue(i, [calls[i] EXCEPT !.reqs[k].st = "failed",
                                    !.result = IF @ = "pending" THEN "error" ELSE @])
    /\ UNCHANGED <<acc, isNotResponding, remote, floating>>

(***************************************************************************)
(* Handlers resume after their await.  A read is answered from what the    *)
(* device holds when the answer arrives.                                   *)
(***************************************************************************)
\* variant: fetchCurrentState goes on as soon as one fetch has resolved
fetchCurrentStateRace(c, a) ==
    IF c.result = "pending"
    THEN LET a2 == [a EXCEPT !.CurrentHeatingCoolingState =
                        IF Abs(a.TargetTemperature - a.CurrentTemperature) <= Tolerance
                             \/ a.TargetHeatingCoolingState = 0 THEN OFF
                        ELSE IF a.CurrentTemperature < a.TargetTemperature THEN HEAT
                        ELSE COOL]
         IN  <<[c EXCEPT !.result = "ok",
                         !.value = a2.CurrentHeatingCoolingState,
                         !.recomputed = TRUE], a2>>
    ELSE <<c, a>>

\* the continuation of a fetch whose store gave record a, in invocation c
\* (already marked): fetchCurrentState goes on only once all three fetches
\* have resolved.  Gives <<invocation, record>>.
fetchCurrentState(c, a) ==
    IF c.result = "pending" /\ AllDone(c)
    THEN LET a2 == triggerCurrentHeatingCoolingStateUpdate(a)
         IN  <<[c EXCEPT !.result = "ok",
                         !.value = a2.CurrentHeatingCoolingState,
                         !.recomputed = TRUE], a2>>
    ELSE <<c, a>>

\* a single get returns the fetched value v
afterFetch(c, a, v) ==
    IF c.op = "handleCurrentHeatingCoolingStateGet"
    THEN fetchCurrentState(c, a)
    ELSE <<[c EXCEPT !.result = "ok", !.value = v], a>>

Resume(i, k, a, v) ==
    LET c == [calls[i] EXCEPT !.reqs[k].st = "done"]
        next == afterFetch(c, a, v)
    IN  /\ Continue(i, next[1])
        /\ acc' = [acc EXCEPT ![c.side] = next[2]]
        /\ UNCHANGED <<isNotResponding, remote, floating>>

fetchCurrentTempResume(i, k) ==
    /\ k \in DOMAIN calls[i].reqs
    /\ calls[i].reqs[k].st = "sent"
    /\ calls[i].reqs[k].kind = "currentLevelForSide"
    /\ \E currentMeasuredLevel \in MeasuredLevels :
          LET a == fetchCurrentTemp(acc[calls[i].side], currentMeasuredLevel)
          IN  Resume(i, k, a, a.CurrentTemperature)

fetchTargetStateResume(i, k) ==
    /\ k \in DOMAIN calls[i].reqs
    /\ calls[i].reqs[k].st = "sent"
    /\ calls[i].reqs[k].kind = "accessoryIsOn"
    /\ LET a == fetchTargetState(acc[calls[i].side], remote[calls[i].reqs[k].side].isOn)
       IN  Resume(i, k, a, a.TargetHeatingCoolingState)

fetchTargetTempResume(i, k) ==
    /\ k \in DOMAIN calls[i].reqs
    /\ calls[i].reqs[k].st = "sent"
    /\ calls[i].reqs[k].kind = "userTargetLevel"
    /\ LET a == fetchTargetTemp(acc[calls[i].side], remote[calls[i].reqs[k].side].targetLevel)
       IN  Resume(i, k, a, a.TargetTemperature)

\* whether updateTargetTemperature logs the local/remote mismatch
mismatch(targetC, targetLevel, clientTargetC, clientTargetLevel) ==
    targetC # clientTargetC \/ targetLevel # clientTargetLevel

\* variant: the requested temperature is stored, not the echoed one
storeRequestedTemperature(a, targetC, clientTargetC) ==
    [a EXCEPT !.TargetTemperature = targetC]

\* what updateTargetTemperature stores once the device has echoed
storeTargetTemperature(a, targetC, clientTargetC) ==
    [a EXCEPT !.TargetTemperature = clientTargetC]

updateTargetTemperatureResume(i, k) ==
    /\ k \in DOMAIN calls[i].reqs
    /\ calls[i].reqs[k].st = "ok"
    /\ calls[i].reqs[k].kind = "updateUserTargetLevel"
    /\ LET c == calls[i]
           r == c.reqs[k]
           targetC == formatCelsius(c.arg)
           clientTargetC == levelToCelsius(r.reply)
           a == storeTargetTemperature(acc[c.side], targetC, clientTargetC)
       IN  /\ Continue(i, [c EXCEPT
                     !.reqs[k].st = "done",
                     !.mismatches =
                         IF mismatch(targetC, r.arg, clientTargetC, r.reply)
                         THEN @ + 1 ELSE @,
                     !.result = "ok",
                     !.value = a.TargetTemperature,
                     !.recomputed = TRUE])
           /\ acc' = [acc EXCEPT ![c.side] = triggerCurrentHeatingCoolingStateUpdate(a)]
    /\ UNCHANGED <<isNotResponding, remote, floating>>

(***************************************************************************)
(* Specification                                                           *)
(***************************************************************************)
\* a side without a live accessory: responsive, its device off
RemoteAtRest == [targetLevel |-> -100, isOn |-> FALSE]

Init ==
    /\ acc = [s \in Sides |-> Thermostat_data]
    /\ \E f \in [LiveSides -> BOOLEAN] :
          isNotResponding = [s \in Sides |-> s \in LiveSides /\ f[s]]
    /\ \E r \in [LiveSides -> [targetLevel : InitialTargetLevels, isOn : BOOLEAN]] :
          remote = [s \in Sides |-> IF s \in LiveSides THEN r[s] ELSE RemoteAtRest]
    /\ calls = [i \in CallIds |-> IF i <= MaxCalls THEN NoCall ELSE Unused]
    /\ floating = {}
    /\ settled = NoCall
    /\ platform = PlatformAtRest

Gets(s) ==
    \/ handleCurrentHeatingCoolingStateGet(s)
    \/ handleCurrentTemperatureGet(s)
    \/ handleTargetTemperatureGet(s)
    \/ handleTargetHeatingCoolingStateGet(s)
    \/ handleTemperatureDisplayUnitsGet(s)

Sets(s) ==
    \/ \E v \in ModeInputs : handleTargetHeatingCoolingStateSet(s, v)
    \/ \E v \in UnitInputs : handleTemperatureDisplayUnitsSet(s, v)

Floaters == [kind : PowerKinds, side : Sides]

Progress ==
    \/ \E i \in CallIds : \E k \in ReqIds :
          \/ RemoteCommitsLevel(i, k)
          \/ ClientCallFails(i, k)
          \/ fetchCurrentTempResume(i, k)
          \/ fetchTargetStateResume(i, k)
          \/ fetchTargetTempResume(i, k)
          \/ updateTargetTemperatureResume(i, k)
    \/ \E f \in Floaters : RemoteSwitches(f) \/ PowerCallFails(f)

Next ==
    \/ \E s \in LiveSides : Gets(s) \/ Sets(s)
    \/ \E s \in LiveSides : \E v \in TempInputs :
          handleTargetTemperatureSet(s, v, celsiusToLevel(formatCelsius(v)))
    \/ Progress

Spec == Init /\ [][Next]_vars

(***************************************************************************)
(* The mapper as the black box the caller must validate: the level          *)
(* celsiusToLevel gives is any of MapperLevels, in range or not            *)
(***************************************************************************)
MapperLevels == {-101, -100, 0, 100, 101}

NextBlackBox ==
    \/ \E s \in LiveSides : Gets(s) \/ Sets(s)
    \/ \E s \in LiveSides : \E v \in TempInputs : \E l \in MapperLevels :
          handleTargetTemperatureSet(s, v, l)
    \/ Progress

SpecBlackBox == Init /\ [][NextBlackBox]_vars

(***************************************************************************)
(* triggerCurrentHeatingCoolingStateUpdate on its own, from any stored     *)
(* temperatures and modes                                                  *)
(***************************************************************************)
\* 0, 18, 20, 20.3, 20.55, 20.55001, 24 and 30 degrees
TempSamples == {0, 1800000, 2000000, 2030000, 2055000, 2055001, 2400000, 3000000}

InitDerive ==
    /\ \E c \in TempSamples, t \in TempSamples, m \in ModeInputs, d \in {OFF, HEAT, COOL} :
          acc = [s \in Sides |->
                   IF s \in LiveSides
                   THEN [Thermostat_data EXCEPT !.CurrentTemperature = c,
                                                !.TargetTemperature = t,
                                                !.TargetHeatingCoolingState = m,
                                                !.CurrentHeatingCoolingState = d]
                   ELSE Thermostat_data]
    /\ isNotResponding = [s \in Sides |-> FALSE]
    /\ remote = [s \in Sides |-> RemoteAtRest]
    /\ calls = [i \in CallIds |-> IF i <= MaxCalls THEN NoCall ELSE Unused]
    /\ floating = {}
    /\ settled = NoCall
    /\ platform = PlatformAtRest

Trigger(s) ==
    LET a == triggerCurrentHeatingCoolingStateUpdate(acc[s])
    IN  /\ acc' = [acc EXCEPT ![s] = a]
        /\ Return(Call("triggerCurrentHeatingCoolingStateUpdate", s, 0, "ok",
                       a.CurrentHeatingCoolingState, <<>>, TRUE))
        /\ UNCHANGED <<isNotResponding, remote, floating>>

NextDerive == \E s \in LiveSides : Trigger(s)

SpecDerive == InitDerive /\ [][NextDerive]_vars

(***************************************************************************)
(* Overlapping invocations on one accessory: the target temperature and    *)
(* target mode handlers, with up to MaxOverlap of them suspended           *)
(***************************************************************************)
InitOverlap ==
    /\ acc = [s \in Sides |-> Thermostat_data]
    /\ isNotResponding = [s \in Sides |-> FALSE]
    /\ \E r \in [LiveSides -> [targetLevel : InitialTargetLevels, isOn : BOOLEAN]] :
          remote = [s \in Sides |-> IF s \in LiveSides THEN r[s] ELSE RemoteAtRest]
    /\ calls = [i \in CallIds |-> NoCall]
    /\ floating = {}
    /\ settled = NoCall
    /\ platform = PlatformAtRest

NextOverlap ==
    \/ \E s \in LiveSides :
          \/ handleTargetTemperatureGet(s)
          \/ handleTargetHeatingCoolingStateGet(s)
          \/ \E v \in ModeInputs : handleTargetHeatingCoolingStateSet(s, v)
          \/ \E v \in TempInputs :
                handleTargetTemperatureSet(s, v, celsiusToLevel(formatCelsius(v)))
    \/ \E i \in CallIds : \E k \in ReqIds :
          \/ RemoteCommitsLevel(i, k)
          \/ ClientCallFails(i, k)
          \/ fetchTargetStateResume(i, k)
          \/ fetchTargetTempResume(i, k)
          \/ updateTargetTemperatureResume(i, k)
    \/ \E f \in Floaters : RemoteSwitches(f) \/ PowerCallFails(f)

SpecOverlap == InitOverlap /\ [][NextOverlap]_vars

(***************************************************************************)
(* The accessories of both sides at work, their invocations overlapping    *)
(***************************************************************************)
InitTwoSides ==
    /\ acc = [s \in Sides |-> Thermostat_data]
    /\ isNotResponding = [s \in Sides |-> FALSE]
    /\ remote = [s \in Sides |-> [targetLevel |-> 100, isOn |-> s = "left"]]
    /\ calls = [i \in CallIds |-> IF i <= MaxCalls THEN NoCall ELSE Unused]
    /\ floating = {}
    /\ settled = NoCall
    /\ platform = PlatformAtRest

\* the value written to TargetTemperature on either side (10 C)
TwoSidesTempInputs == {MinTempC}

NextTwoSides ==
    \/ \E s \in Sides :
          \/ handleCurrentTemperatureGet(s)
          \/ \E v \in ModeInputs : handleTargetHeatingCoolingStateSet(s, v)
          \/ \E v \in TwoSidesTempInputs :
                handleTargetTemperatureSet(s, v, celsiusToLevel(formatCelsius(v)))
    \/ \E i \in CallIds : \E k \in ReqIds :
          \/ RemoteCommitsLevel(i, k)
          \/ fetchCurrentTempResume(i, k)
          \/ updateTargetTemperatureResume(i, k)
    \/ \E f \in Floaters : RemoteSwitches(f)

SpecTwoSides == InitTwoSides /\ [][NextTwoSides]_vars

(***************************************************************************)
(* The conversions at work: a target temperature write whose level the     *)
(* device has echoed unchanged, and a target temperature get, for every    *)
(* level and for temperatures on and between the steps of the domain       *)
(***************************************************************************)
StepIndices == 0..((MaxTempC - MinTempC) \div MinStep)
\* distances above a step: on it, just above, half way, just below the next
StepOffsets == {0, 1, 27778, 55555}
MapperTemps ==
    {t \in {MinTempC + k * MinStep + d : k \in StepIndices, d \in StepOffsets} \cup {MaxTempC} :
        t <= MaxTempC}
Levels == (-MaxLevel)..MaxLevel

InitMapper ==
    /\ acc = [s \in Sides |-> Thermostat_data]
    /\ isNotResponding = [s \in Sides |-> FALSE]
    /\ floating = {}
    /\ settled = NoCall
    /\ platform = PlatformAtRest
    /\ \/ \E t \in MapperTemps :
             LET level == celsiusToLevel(formatCelsius(t))
                 echoed == [Req("updateUserTargetLevel", "left", level)
                               EXCEPT !.st = "ok", !.reply = level]
                 c == [Call("handleTargetTemperatureSet", "left", t, "pending", 0,
                            <<echoed>>, FALSE) EXCEPT !.level = level]
             IN  /\ ~levelRejected(level)
                 /\ remote = [s \in Sides |->
                                IF s = "left" THEN [targetLevel |-> level, isOn |-> TRUE]
                                ELSE RemoteAtRest]
                 /\ calls = [i \in CallIds |-> IF i = 1 THEN c ELSE Unused]
       \/ \E l \in Levels :
             LET c == Call("handleTargetTemperatureGet", "left", 0, "pending", 0,
                           <<Req("userTargetLevel", "left", 0)>>, FALSE)
             IN  /\ remote = [s \in Sides |->
                                IF s = "left" THEN [targetLevel |-> l, isOn |-> TRUE]
                                ELSE RemoteAtRest]
                 /\ calls = [i \in CallIds |-> IF i = 1 THEN c ELSE Unused]

NextMapper ==
    \E i \in CallIds : \E k \in ReqIds :
       \/ updateTargetTemperatureResume(i, k)
       \/ fetchTargetTempResume(i, k)

SpecMapper == InitMapper /\ [][NextMapper]_vars

(***************************************************************************)
(* The platform plugin (src/unnamed/part_001): the accessories restored    *)
(* from the cache, then discoverDevices from the didFinishLaunching        *)
(* callback, suspended at its two awaits                                   *)
(***************************************************************************)
\* what api.hap.uuid.generate gives for `${clientDevice.id}:LEFT` and
\* `:RIGHT`, and the UUID of a cached accessory that is neither
UUIDs == {"LEFT", "RIGHT", "OTHER"}

Range(seq) == {seq[k] : k \in DOMAIN seq}

\* Homebridge calls configureAccessory once for each cached accessory,
\* before didFinishLaunching
configureAccessory(accessory) ==
    /\ platform.phase = "restoring"
    /\ accessory \notin Range(platform.accessories)
    /\ platform' = [platform EXCEPT !.accessories = Append(@, accessory)]
    /\ UNCHANGED <<acc, isNotResponding, remote, calls, floating, settled>>

\* what the call this.discoverDevices() does inside the try block: an async
\* function runs up to its first await and hands back a pending promise; it
\* does not throw into its caller
discoverDevicesCall == "pending"

\* the callback the constructor registers when email and password are
\* configured: it calls discoverDevices, which suspends at its first await,
\* and returns; its catch block logs what the call itself throws
didFinishLaunching ==
    /\ platform.phase = "restoring"
    /\ platform.configured
    /\ platform' =
          IF discoverDevicesCall = "threw"
          THEN [platform EXCEPT !.phase = "rejected",
                                !.logged = Append(@, "There was a problem connecting to Eight Sleep")]
          ELSE [platform EXCEPT !.phase = "awaitDevice"]
    /\ UNCHANGED <<acc, isNotResponding, remote, calls, floating, settled>>

\* this.client.currentDevice resolves, to a device (whose side is the
\* account owner's) or to nothing
currentDeviceResolves(clientDevice) ==
    /\ platform.phase = "awaitDevice"
    /\ platform' = [platform EXCEPT !.clientDevice = clientDevice,
                                    !.phase = "awaitSession"]
    /\ UNCHANGED <<acc, isNotResponding, remote, calls, floating, settled>>

eightSleepDevices(clientDevice) ==
    <<[accessoryUUID |-> "LEFT",
       displayName |-> IF clientDevice = "left" THEN "My Bed" ELSE "Guest Bed"],
      [accessoryUUID |-> "RIGHT",
       displayName |-> IF clientDevice = "right" THEN "My Bed" ELSE "Guest Bed"]>>

\* variant: the restored accessories are not looked up
noExistingAccessory(accessories, uuid) == FALSE

\* this.accessories.find(accessory => accessory.UUID === uuid), as a truth
\* value
existingAccessory(accessories, uuid) == uuid \in Range(accessories)

\* one turn of the loop of discoverDevices
discoverDevice(p, device) ==
    LET uuid == device.accessoryUUID
    IN  IF existingAccessory(p.accessories, uuid)
        THEN [p EXCEPT !.handlers = Append(@, uuid)]
        ELSE [p EXCEPT !.handlers = Append(@, uuid),
                       !.registered = Append(@, [UUID |-> uuid,
                                                 displayName |-> device.displayName])]

\* this.client.clientSession resolves: discoverDevices throws if the device
\* or the session is missing, else it runs its loop to the end.  The throw
\* rejects the promise the callback dropped: no handler is attached to it
discoverDevices(session) ==
    /\ platform.phase = "awaitSession"
    /\ LET p == [platform EXCEPT !.session = session]
           devices == eightSleepDevices(p.clientDevice)
       IN  platform' =
              IF p.clientDevice = "none" \/ session = "none"
              THEN [p EXCEPT !.phase = "rejected", !.unhandledRejection = TRUE]
              ELSE [discoverDevice(discoverDevice(p, devices[1]), devices[2])
                       EXCEPT !.phase = "done"]
    /\ UNCHANGED <<acc, isNotResponding, remote, calls, floating, settled>>

InitDiscover ==
    /\ acc = [s \in Sides |-> Thermostat_data]
    /\ isNotResponding = [s \in Sides |-> FALSE]
    /\ remote = [s \in Sides |-> RemoteAtRest]
    /\ calls = [i \in CallIds |-> IF i <= MaxCalls THEN NoCall ELSE Unused]
    /\ floating = {}
    /\ settled = NoCall
    /\ \E configured \in BOOLEAN :
          platform = [PlatformAtRest EXCEPT
                         !.configured = configured,
                         !.logged = IF configured THEN <<>>
                                    ELSE <<"Unable to setup plugin">>]

NextDiscover ==
    \/ \E accessory \in UUIDs : configureAccessory(accessory)
    \/ didFinishLaunching
    \/ \E clientDevice \in {"none", "left", "right"} : currentDeviceResolves(clientDevice)
    \/ \E session \in {"none", "ok"} : discoverDevices(session)

SpecDiscover == InitDiscover /\ [][NextDiscover]_vars

(***************************************************************************)
(* Properties                                                              *)
(***************************************************************************)
\* every invocation the state knows of: the suspended ones and the one that
\* has just settled
Invocations == {settled} \cup {calls[i] : i \in CallIds}

InRange(level) == level >= -MaxLevel /\ level <= MaxLevel

\* the mode the specification derives from the three inputs
SpecifiedMode(currentTemperatureC, targetTemperatureC, targetMode) ==
    IF targetMode = OFF THEN OFF
    ELSE IF Abs(targetTemperatureC - currentTemperatureC) <= Tolerance THEN OFF
    ELSE IF currentTemperatureC < targetTemperatureC THEN HEAT
    ELSE COOL

ModeOf(a) ==
    SpecifiedMode(a.CurrentTemperature, a.TargetTemperature, a.TargetHeatingCoolingState)

\* the handlers that run triggerCurrentHeatingCoolingStateUpdate before
\* they return
RecomputingOps ==
    {"handleCurrentHeatingCoolingStateGet", "handleTargetTemperatureSet",
     "handleTargetHeatingCoolingStateSet"}

\* C1: triggerCurrentHeatingCoolingStateUpdate writes into the cached mode,
\* and returns, OFF if the target mode is OFF, else OFF if the temperatures
\* differ by at most the tolerance, else HEAT if the current temperature is
\* below the target, else COOL; it changes no other field.
C1_DeriveCurrentMode ==
    [][\A s \in Sides :
          settled'.op = "triggerCurrentHeatingCoolingStateUpdate" /\ settled'.side = s
          => /\ acc'[s] = [acc[s] EXCEPT !.CurrentHeatingCoolingState = ModeOf(acc[s])]
             /\ settled'.value = ModeOf(acc[s])]_vars

\* the update has run on temperatures exactly the tolerance apart, in AUTO
C1_Witness ==
    /\ settled.op = "triggerCurrentHeatingCoolingStateUpdate"
    /\ LET a == acc[settled.side]
       IN  /\ a.TargetHeatingCoolingState = AUTO
           /\ a.TargetTemperature - a.CurrentTemperature = Tolerance
           /\ a.CurrentHeatingCoolingState = OFF

\* C2 as stated: in every reachable state the cached mode is the mode
\* derived from the three stored fields.
C2_CachedModeAlwaysDerived ==
    \A s \in Sides : acc[s].CurrentHeatingCoolingState = ModeOf(acc[s])

\* C2 as amended: the cached mode is only ever changed to the mode derived
\* from the stored fields, and it equals that mode whenever a set handler
\* or the current-mode get returns.
C2_ModeWrittenOnlyByDerive ==
    [][\A s \in Sides :
          /\ acc'[s].CurrentHeatingCoolingState # acc[s].CurrentHeatingCoolingState
             => acc'[s].CurrentHeatingCoolingState = ModeOf(acc'[s])
          /\ settled'.side = s /\ settled'.result = "ok" /\ settled'.op \in RecomputingOps
             => acc'[s].CurrentHeatingCoolingState = ModeOf(acc'[s])]_vars

\* a set handler or the current-mode get has returned, leaving HEAT or COOL
C2_Witness ==
    /\ settled.op \in RecomputingOps
    /\ settled.result = "ok"
    /\ acc[settled.side].CurrentHeatingCoolingState \in {HEAT, COOL}

\* C3: a target temperature write on a responsive accessory whose level is
\* in -100..100 (0 included) sends exactly one updateUserTargetLevel with
\* that level, and stores the conversion of the echoed level.
C3_InRangeLevelIsSent ==
    \A c \in Invocations :
       c.op = "handleTargetTemperatureSet" /\ c.result # "commfail" /\ InRange(c.level)
       => /\ Len(c.reqs) = 1
          /\ c.reqs[1].kind = "updateUserTargetLevel"
          /\ c.reqs[1].arg = c.level
          /\ c = settled /\ c.result = "ok"
             => acc[c.side].TargetTemperature = levelToCelsius(c.reqs[1].reply)

\* C4: no level outside -100..100 is ever sent to the device, and a target
\* temperature write whose level is outside makes no client request and
\* leaves the temperatures and the target mode as they were.
C4_OutOfRangeNeverSent ==
    [][/\ \A c \in {settled'} \cup {calls'[i] : i \in CallIds} :
             \A k \in DOMAIN c.reqs :
                c.reqs[k].kind = "updateUserTargetLevel" => InRange(c.reqs[k].arg)
       /\ settled'.op = "handleTargetTemperatureSet" /\ settled'.result = "ok"
            /\ ~InRange(settled'.level)
          => /\ settled'.reqs = <<>>
             /\ calls' = calls /\ floating' = floating /\ remote' = remote
             /\ LET a == acc[settled'.side]
                    b == acc'[settled'.side]
                IN  /\ b.CurrentTemperature = a.CurrentTemperature
                    /\ b.TargetTemperature = a.TargetTemperature
                    /\ b.TargetHeatingCoolingState = a.TargetHeatingCoolingState]_vars

\* a write whose level is above 100 has returned
C4_Witness ==
    /\ settled.op = "handleTargetTemperatureSet"
    /\ settled.result = "ok"
    /\ settled.level > MaxLevel

\* C5: when a target temperature write returns after the device echoed
\* level E for the requested level L, the stored target temperature is the
\* conversion of E and the write succeeded; E # L logged exactly one
\* mismatch, and E = L with equal temperatures logged none.
C5_EchoAdopted ==
    settled.op = "handleTargetTemperatureSet" /\ settled.reqs # <<>>
       /\ settled.reqs[1].st = "done"
    => LET targetLevel == settled.reqs[1].arg
           clientTargetLevel == settled.reqs[1].reply
       IN  /\ settled.result = "ok"
           /\ acc[settled.side].TargetTemperature = levelToCelsius(clientTargetLevel)
           /\ clientTargetLevel # targetLevel => settled.mismatches = 1
           /\ clientTargetLevel = targetLevel
                /\ levelToCelsius(clientTargetLevel) = formatCelsius(settled.arg)
              => settled.mismatches = 0

\* a write has returned after the device echoed another level
C5_Witness ==
    /\ settled.op = "handleTargetTemperatureSet"
    /\ settled.reqs # <<>>
    /\ settled.reqs[1].st = "done"
    /\ settled.reqs[1].reply # settled.reqs[1].arg
    /\ settled.mismatches = 1

\* the characteristic handlers
HandlerOps ==
    {"handleCurrentHeatingCoolingStateGet", "handleCurrentTemperatureGet",
     "handleTargetTemperatureGet", "handleTargetHeatingCoolingStateGet",
     "handleTargetTemperatureSet", "handleTargetHeatingCoolingStateSet",
     "handleTemperatureDisplayUnitsGet", "handleTemperatureDisplayUnitsSet"}

\* C6: a target mode write that passes the gate makes a power request if
\* and only if the requested mode differs from the stored one
\* (turnOnAccessory for AUTO, turnOffAccessory for OFF, for its own side),
\* and the stored target mode is the requested one when it returns; a power
\* request that fails afterwards changes nothing stored.
C6_PowerCommandIffModeDiffers ==
    [][/\ \A s \in Sides :
             settled'.op = "handleTargetHeatingCoolingStateSet" /\ settled'.side = s
                /\ settled'.result = "ok"
             => LET requested == settled'.arg
                    reqs == settled'.reqs
                IN  /\ requested # acc[s].TargetHeatingCoolingState <=> Len(reqs) = 1
                    /\ Len(reqs) <= 1
                    /\ \A k \in DOMAIN reqs :
                          /\ reqs[k].side = s
                          /\ reqs[k].kind = IF requested = AUTO THEN "turnOnAccessory"
                                            ELSE "turnOffAccessory"
                    /\ floating' = floating \cup
                          {[kind |-> reqs[k].kind, side |-> s] : k \in DOMAIN reqs}
                    /\ acc'[s].TargetHeatingCoolingState = requested
       /\ settled'.op = "unhandledRejection" => acc' = acc]_vars

\* a write of OFF over a stored AUTO has returned, turnOffAccessory requested
C6_Witness ==
    /\ settled.op = "handleTargetHeatingCoolingStateSet"
    /\ settled.result = "ok"
    /\ settled.arg = OFF
    /\ Len(settled.reqs) = 1
    /\ settled.reqs[1].kind = "turnOffAccessory"
    /\ acc[settled.side].TargetHeatingCoolingState = OFF

\* C7: on an accessory flagged as not responding every handler throws the
\* communication failure, makes no client request and leaves the stored
\* record, the device and everything in flight as they were.
C7_UnresponsiveGate ==
    [][\A s \in Sides :
          isNotResponding[s]
          => /\ acc'[s] = acc[s]
             /\ \A i \in CallIds : calls'[i].op # "none" => calls'[i].side # s
             /\ \A f \in floating' : f.side # s
             /\ settled'.op \in HandlerOps /\ settled'.side = s
                => /\ settled'.result = "commfail"
                   /\ settled'.reqs = <<>>
                   /\ calls' = calls /\ floating' = floating /\ remote' = remote]_vars

\* a target temperature write on an accessory flagged as not responding has
\* thrown
C7_Witness ==
    /\ settled.op = "handleTargetTemperatureSet"
    /\ isNotResponding[settled.side]
    /\ settled.result = "commfail"

\* C8 as stated: a set handler that has recomputed the current mode, or has
\* returned, has none of its client requests still in flight.
C8_RecomputeAfterOwnCall ==
    \A c \in Invocations :
       c.op \in {"handleTargetTemperatureSet", "handleTargetHeatingCoolingStateSet"}
          /\ (c.recomputed \/ c.result = "ok")
       => \A k \in DOMAIN c.reqs : c.reqs[k].st = "done"

\* C9 as stated: a client request that fails makes the handler that issued
\* it fail.
C9_FailureReachesCaller ==
    \A c \in Invocations :
       (\E k \in DOMAIN c.reqs : c.reqs[k].st = "failed")
       => c.op \in HandlerOps /\ c.result = "error"

\* C10: the current-mode get issues its three fetches together; it
\* recomputes and returns only when all three have resolved and stored, and
\* then returns the mode derived from what is stored; if one of them fails
\* it throws and does not recompute.
C10_JoinBarrier ==
    \A c \in Invocations :
       c.op = "handleCurrentHeatingCoolingStateGet" /\ c.result # "commfail"
       => /\ Len(c.reqs) = 3
          /\ {c.reqs[k].kind : k \in DOMAIN c.reqs} =
                {"currentLevelForSide", "accessoryIsOn", "userTargetLevel"}
          /\ c.recomputed \/ c.result = "ok"
             => AllDone(c) /\ c.recomputed /\ c.result = "ok" /\ c = settled
          /\ c = settled /\ c.result = "ok"
             => /\ c.value = acc[c.side].CurrentHeatingCoolingState
                /\ c.value = ModeOf(acc[c.side])
                /\ acc[c.side].CurrentTemperature \in
                      {levelToCelsius(l) : l \in MeasuredLevels}
                /\ acc[c.side].TargetTemperature # 0
          /\ (\E k \in DOMAIN c.reqs : c.reqs[k].st = "failed")
             => c.result = "error" /\ ~c.recomputed

\* the current-mode get has returned COOL after its three fetches
C10_Witness ==
    /\ settled.op = "handleCurrentHeatingCoolingStateGet"
    /\ settled.result = "ok"
    /\ settled.value = COOL
    /\ AllDone(settled)

\* a fetch of the given kind, of the accessory of side s, resumes in this
\* step
FetchResumes(kind, s) ==
    \E i \in CallIds : \E k \in DOMAIN calls[i].reqs :
       /\ calls[i].side = s
       /\ calls[i].reqs[k].kind = kind
       /\ calls[i].reqs[k].st = "sent"
       /\ calls'[i] = NoCall \/ calls'[i].reqs[k].st = "done"

C12_AbortReturnsStored ==
    settled.op = "handleTargetTemperatureSet" /\ settled.result = "ok"
       /\ ~InRange(settled.level)
    => settled.value = acc[settled.side].TargetTemperature

\* C14: on a responsive accessory a display units write makes no client
\* request and changes only TemperatureDisplayUnits, to the written value;
\* a display units get returns the stored unit and changes nothing; and
\* nothing else changes the stored unit, so a following get returns what
\* was written.
C14_DisplayUnitsPassThrough ==
    [][\A s \in Sides :
          /\ settled'.op = "handleTemperatureDisplayUnitsSet" /\ settled'.side = s
                /\ settled'.result = "ok"
             => /\ acc' = [acc EXCEPT ![s].TemperatureDisplayUnits = settled'.arg]
                /\ settled'.reqs = <<>>
                /\ calls' = calls /\ floating' = floating /\ remote' = remote
          /\ settled'.op = "handleTemperatureDisplayUnitsGet" /\ settled'.side = s
                /\ settled'.result = "ok"
             => /\ settled'.value = acc[s].TemperatureDisplayUnits
                /\ settled'.reqs = <<>>
                /\ acc' = acc /\ calls' = calls /\ floating' = floating
                /\ remote' = remote
          /\ acc'[s].TemperatureDisplayUnits # acc[s].TemperatureDisplayUnits
             => /\ settled'.op = "handleTemperatureDisplayUnitsSet"
                /\ settled'.side = s]_vars

\* a display units get has returned 0, which only a write can have stored
C14_Witness ==
    /\ settled.op = "handleTemperatureDisplayUnitsGet"
    /\ settled.result = "ok"
    /\ settled.value = 0

\* C17 as stated: a target mode write of OFF on a responsive accessory
\* whose device side is on requests turnOffAccessory, and a write of AUTO
\* while it is off requests turnOnAccessory.
C17_PowerCommandWhenRemoteDiffers ==
    settled.op = "handleTargetHeatingCoolingStateSet" /\ settled.result = "ok"
       /\ remote[settled.side].isOn # (settled.arg = AUTO)
    => /\ Len(settled.reqs) = 1
       /\ settled.reqs[1].kind = IF settled.arg = AUTO THEN "turnOnAccessory"
                                 ELSE "turnOffAccessory"

\* C19 as stated: a target mode get that was suspended when a target mode
\* write of m returned, and resumes next, leaves m stored.
C19_FetchKeepsUserWrite ==
    [][settled.op = "handleTargetHeatingCoolingStateSet" /\ settled.result = "ok"
          /\ settled'.op = "handleTargetHeatingCoolingStateGet"
          /\ settled'.side = settled.side /\ settled'.result = "ok"
       => acc'[settled.side].TargetHeatingCoolingState = settled.arg]_vars

\* the sides of the accessories whose invocation, or whose power request,
\* moves in this step
ActorSides ==
    (IF settled'.op # "none" THEN {settled'.side} ELSE {})
    \cup {calls[i].side : i \in {j \in CallIds : calls'[j] # calls[j] /\ calls[j].op # "none"}}
    \cup {calls'[i].side : i \in {j \in CallIds : calls'[j] # calls[j] /\ calls'[j].op # "none"}}
    \cup {f.side : f \in (floating \ floating') \cup (floating' \ floating)}

\* C13: the accessories of the two sides are independent: a step of one
\* side's get or set, or of one of its requests, leaves the other side's
\* stored record and device state unchanged, and every request of an
\* accessory is addressed to its own side.
C13_SidesIndependent ==
    [][/\ Cardinality(ActorSides) = 1
       /\ \A s \in Sides :
             s \notin ActorSides => acc'[s] = acc[s] /\ remote'[s] = remote[s]
       /\ \A c \in {settled'} \cup {calls'[i] : i \in CallIds} :
             \A k \in DOMAIN c.reqs : c.reqs[k].side = c.side]_vars

\* a target temperature write on the right side has stored its echo while a
\* power request of the left side is in flight, and the left record differs
C13_Witness ==
    /\ settled.op = "handleTargetTemperatureSet"
    /\ settled.side = "right"
    /\ settled.reqs # <<>>
    /\ settled.reqs[1].st = "done"
    /\ \E f \in floating : f.side = "left"
    /\ acc["left"].TargetTemperature # acc["right"].TargetTemperature

\* a target temperature write has returned whose level the device echoed
\* unchanged
EchoedUnchanged ==
    /\ settled.op = "handleTargetTemperatureSet"
    /\ settled.result = "ok"
    /\ settled.reqs # <<>>
    /\ settled.reqs[1].st = "done"
    /\ settled.reqs[1].reply = settled.reqs[1].arg

C18_StoredMatchesDevice ==
    settled.op = "handleTargetTemperatureSet" /\ settled.result = "ok"
       /\ settled.reqs # <<>>
       /\ (\A i \in CallIds : calls[i].op # "handleTargetTemperatureSet")
    => acc[settled.side].TargetTemperature =
          levelToCelsius(remote[settled.side].targetLevel)

\* how many times an accessory of the given UUID was registered
Registrations(uuid) ==
    Cardinality({k \in DOMAIN platform.registered : platform.registered[k].UUID = uuid})

\* C20: discoverDevices, when the device and the session are there, handles
\* the LEFT and the RIGHT device and no other, creates one accessory
\* handler for each, and registers a new accessory exactly for those whose
\* UUID is not among the restored ones; before it has run, nothing is
\* created or registered.
C20_RegistersOnlyUncached ==
    /\ platform.phase = "done"
       => /\ platform.handlers = <<"LEFT", "RIGHT">>
          /\ \A uuid \in UUIDs :
                Registrations(uuid) =
                   IF uuid \in {"LEFT", "RIGHT"} /\ uuid \notin Range(platform.accessories)
                   THEN 1 ELSE 0
    /\ platform.phase # "done"
       => platform.handlers = <<>> /\ platform.registered = <<>>

\* discovery has ended with LEFT restored from the cache and RIGHT newly
\* registered
C20_Witness ==
    /\ platform.phase = "done"
    /\ "LEFT" \in Range(platform.accessories)
    /\ "RIGHT" \notin Range(platform.accessories)
    /\ Len(platform.registered) = 1
    /\ platform.registered[1].UUID = "RIGHT"

\* when discovery has failed, no accessory handler was created and no
\* accessory was registered
NothingCreatedOnFailure ==
    platform.phase = "rejected"
    => platform.handlers = <<>> /\ platform.registered = <<>>

\* C21: when discoverDevices fails because the device or the session is
\* missing, the didFinishLaunching callback has caught and logged the
\* failure, nothing was created or registered, and no rejection is left
\* without a handler.
C21_DiscoveryFailureCaughtAndLogged ==
    platform.phase = "rejected"
    => /\ "There was a problem connecting to Eight Sleep" \in Range(platform.logged)
       /\ ~platform.unhandledRejection
       /\ platform.handlers = <<>>
       /\ platform.registered = <<>>

====
